---- MODULE Spec2Model ----
(***************************************************************************)
(* A model of src/src/App.tsx: the anchor editor (App), the curve builder  *)
(* (coordsToSmoothPath) and the per-character placement computed by the    *)
(* layout effect of TextPathDisplay.                                       *)
(*                                                                         *)
(* Numbers.  Anchors carry integer coordinates (the view box is 800 x 600  *)
(* and the svg is 800 x 600 pixels, so getSVGPoint scales by 1).  The      *)
(* builder divides by 6, so every number of a path description, and every  *)
(* length measured on it, is kept in sixths of a user unit (Scale): the    *)
(* arithmetic of the model is exact.  Arc lengths handed to the sampler    *)
(* are fractions [num, den] of sixths in lowest terms.                     *)
(*                                                                         *)
(* Strings.  A string is the sequence of its code points; split('') is    *)
(* the sequence of its UTF-16 code units.                                  *)
(*                                                                         *)
(* The browser.  getTotalLength and getPointAtLength belong to the SVG     *)
(* implementation, not to the repository.  The length of a path is         *)
(* modelled by the length of its control polygon in the taxicab metric:    *)
(* a function of the path data alone, 0 exactly when the path has no       *)
(* extent (no command, a lone move, or all control points coincident).     *)
(* A sampled point is kept symbolic: the arc length it was taken at and    *)
(* the total length of the path it was taken on, the path itself being     *)
(* recorded once per effect run (measured).  atan2 of two sampled points   *)
(* is kept symbolic too.                                                   *)
(*                                                                         *)
(* Events.  React renders the state a handler set, commits it and runs the *)
(* layout effect before the next event is handled: an action is a handler  *)
(* together with that render.  A click inside the svg follows the mouseup  *)
(* that completes it (afterMouseUp).                                       *)
(*                                                                         *)
(* The ref.  React DOM attaches the measuring path to internalPathRef      *)
(* before it runs the layout effect, so under Spec and SpecDisplay the     *)
(* effect always finds the element.  The effect itself allows for a null   *)
(* current (line 75); SpecDetached hands it one, to show what that branch  *)
(* leaves in charPositions.                                                *)
(***************************************************************************)
EXTENDS Integers, Sequences, FiniteSets, TLC

VARIABLES
    charCoords,     \* App: useState(initialTextPath.charCoords)
    followPath,     \* App: useState(true)
    textMode,       \* App: useState('japanese')
    customText,     \* App: useState('')
    isEditMode,     \* App: useState(false)
    draggingIndex,  \* App: useState(null); a 0-based index, or Null
    props,          \* TextPathDisplay: the props of its last render
    pathD,          \* the d attribute of the measuring path (internalPathRef.current)
    deps,           \* the dependency list of the last layout-effect run
    charPositions,  \* TextPathDisplay: useState([])
    measured,       \* history: the path data the last effect run measured and sampled
    sampled,        \* history: the arc lengths the last effect run handed to the sampler
    pathAttached,   \* history: the last effect run found the path element in
                    \* internalPathRef.current
    afterMouseUp,   \* browser: the last event was a mouseup on the svg
    last            \* history: the last event, with its arguments when it is a
                    \* request on the anchors (mouse move, click, delete)

vars == <<charCoords, followPath, textMode, customText, isEditMode, draggingIndex,
          props, pathD, deps, charPositions, measured, sampled, pathAttached,
          afterMouseUp, last>>

appVars == <<charCoords, followPath, textMode, customText, isEditMode, draggingIndex,
             afterMouseUp, last>>

\* draggingIndex === null; anchors are indexed from 0.
Null == -1

\* Sixths of a user unit: the denominator coordsToSmoothPath divides by.
Scale == 6

----------------------------------------------------------------------------
(* Bounds of the model *)

\* The most anchors a curve is given: an insert is taken only below it.
MaxAnchors == 4
\* The number of distinct points a caller of TextPathDisplay passes.
PropPositions == 3

----------------------------------------------------------------------------
(* Plain arithmetic *)

Abs(n) == IF n < 0 THEN -n ELSE n

RECURSIVE Gcd(_, _)
Gcd(a, b) == IF b = 0 THEN a ELSE Gcd(b, a % b)

\* The fraction num/den (den > 0) in lowest terms.
Frac(num, den) ==
    LET g == Gcd(Abs(num), den)
    IN  [num |-> num \div g, den |-> den \div g]

FracLeq(a, b) == a.num * b.den <= b.num * a.den

FracAdd(a, b) == Frac(a.num * b.den + b.num * a.den, a.den * b.den)

FracMin(a, b) == IF FracLeq(a, b) THEN a ELSE b

----------------------------------------------------------------------------
(* coordsToSmoothPath *)

Pt(x, y) == [x |-> x, y |-> y]

MoveTo(p) == [op |-> "M", args |-> <<Scale * p.x, Scale * p.y>>]

LineTo(p) == [op |-> "L", args |-> <<Scale * p.x, Scale * p.y>>]

\* Faulty variant: the first anchor itself, not its reflection.
ReflectFirstNoop(coords, i) == coords[i + 1]

\* The synthetic point before the first anchor.
ReflectFirst(coords, i) ==
    Pt(coords[i + 1].x - (coords[i + 2].x - coords[i + 1].x),
       coords[i + 1].y - (coords[i + 2].y - coords[i + 1].y))

\* The synthetic point after the last anchor.
ReflectLast(coords, i) ==
    Pt(coords[i + 2].x + (coords[i + 2].x - coords[i + 1].x),
       coords[i + 2].y + (coords[i + 2].y - coords[i + 1].y))

\* The cubic segment of loop index i (0-based): from coords[i] to coords[i + 1]
\* of the source; the sequence here is 1-based.
CurveTo(coords, i) ==
    LET p0 == IF i > 0 THEN coords[i] ELSE ReflectFirst(coords, i)
        p1 == coords[i + 1]
        p2 == coords[i + 2]
        p3 == IF i < Len(coords) - 2 THEN coords[i + 3] ELSE ReflectLast(coords, i)
    IN  [op |-> "C",
         args |-> << Scale * p1.x + (p2.x - p0.x), Scale * p1.y + (p2.y - p0.y),
                     Scale * p2.x - (p3.x - p1.x), Scale * p2.y - (p3.y - p1.y),
                     Scale * p2.x, Scale * p2.y >>]

\* Faulty variant: the loop stops one segment early.
RECURSIVE PathLoopOneShort(_, _, _)
PathLoopOneShort(coords, i, path) ==
    IF i < Len(coords) - 2
    THEN PathLoopOneShort(coords, i + 1, Append(path, CurveTo(coords, i)))
    ELSE path

\* for (let i = 0; i < coords.length - 1; i++) path += ...
RECURSIVE PathLoop(_, _, _)
PathLoop(coords, i, path) ==
    IF i < Len(coords) - 1
    THEN PathLoop(coords, i + 1, Append(path, CurveTo(coords, i)))
    ELSE path

\* Faulty variant: no straight line for 2 anchors.
coordsToSmoothPathNoLine(coords) ==
    IF Len(coords) = 0 THEN <<>>
    ELSE IF Len(coords) = 1 THEN <<MoveTo(coords[1])>>
    ELSE PathLoop(coords, 0, <<MoveTo(coords[1])>>)

\* The path description, as the sequence of its commands.
coordsToSmoothPath(coords) ==
    IF Len(coords) = 0 THEN <<>>
    ELSE IF Len(coords) = 1 THEN <<MoveTo(coords[1])>>
    ELSE IF Len(coords) = 2 THEN <<MoveTo(coords[1]), LineTo(coords[2])>>
    ELSE PathLoop(coords, 0, <<MoveTo(coords[1])>>)

----------------------------------------------------------------------------
(* The SVG implementation's measurements of a path description *)

Taxi(ax, ay, bx, by) == Abs(bx - ax) + Abs(by - ay)

\* The extent one command adds when drawn from the point (cx, cy).
CommandLength(cmd, cx, cy) ==
    LET a == cmd.args
    IN  IF cmd.op = "L" THEN Taxi(cx, cy, a[1], a[2])
        ELSE IF cmd.op = "C"
        THEN Taxi(cx, cy, a[1], a[2]) + Taxi(a[1], a[2], a[3], a[4])
             + Taxi(a[3], a[4], a[5], a[6])
        ELSE 0

RECURSIVE LengthFrom(_, _)
LengthFrom(d, k) ==
    IF k > Len(d) THEN 0
    ELSE LET prev == d[k - 1].args
             n == Len(prev)
         IN  CommandLength(d[k], prev[n - 1], prev[n]) + LengthFrom(d, k + 1)

\* path.getTotalLength(), in sixths.
getTotalLength(d) == IF Len(d) = 0 THEN 0 ELSE LengthFrom(d, 2)

\* path.getPointAtLength(length): the point of d at that arc length.
getPointAtLength(d, length) == [at |-> length, of |-> getTotalLength(d)]

\* Math.atan2(next.y - point.y, next.x - point.x) * (180 / Math.PI)
Atan2Deg(point, next) == [kind |-> "atan2deg", from |-> point, to |-> next]

\* The literal 0 of line 88.
ZeroDeg == [kind |-> "deg", value |-> 0]

\* One user unit, the step of the finite difference, as a fraction of sixths.
OneUnit == Frac(Scale, 1)

getPathPointAtLength(d, length) ==
    LET point == getPointAtLength(d, length)
        nextPoint == getPointAtLength(d,
                        FracMin(FracAdd(length, OneUnit), Frac(getTotalLength(d), 1)))
    IN  [x |-> <<"x", point>>, y |-> <<"y", point>>,
         angle |-> Atan2Deg(point, nextPoint)]

----------------------------------------------------------------------------
(* Strings *)

\* The UTF-16 code units of one code point.
CodeUnits(cp) ==
    IF cp > 65535
    THEN << 55296 + ((cp - 65536) \div 1024), 56320 + ((cp - 65536) % 1024) >>
    ELSE << cp >>

\* displayText.split(''): one entry per UTF-16 code unit.
RECURSIVE Split(_)
Split(str) == IF str = <<>> THEN <<>> ELSE CodeUnits(Head(str)) \o Split(Tail(str))

\* initialTextPath.text, '飛騨山脈'
text == << 39131, 39464, 23665, 33032 >>

\* initialTextPath.textEng, 'Hida Mountains'
textEng == << 72, 105, 100, 97, 32, 77, 111, 117, 110, 116, 97, 105, 110, 115 >>

\* a || b on strings: the empty string is falsy.
OrElse(a, b) == IF a # <<>> THEN a ELSE b

\* const displayText = (() => { switch (textMode) ... })()
DisplayText(mode, custom) ==
    IF mode = "english" THEN OrElse(textEng, text)
    ELSE IF mode = "custom" THEN OrElse(custom, text)
    ELSE text

----------------------------------------------------------------------------
(* TextPathDisplay: the layout effect *)

\* internalPathRef: { current: the path element } or { current: null }
Ref(d) == [attached |-> TRUE, d |-> d]

NullRef == [attached |-> FALSE, d |-> <<>>]

\* Faulty variant: the end of the slot, (i + 1) * charWidth.
CharLengthSlotEnd(i, length, n) == Frac((i + 1) * length, n)

\* (i + 0.5) * charWidth with charWidth = length / chars.length, evaluated only
\* with n > 0.
CharLength(i, length, n) == Frac((2 * i + 1) * length, 2 * n)

\* Faulty variant: the flag is ignored.
RotationAlwaysPath(follow, angle) == angle

\* followPath ? pathPoint.angle : 0
Rotation(follow, angle) == IF follow THEN angle ELSE ZeroDeg

\* Faulty variant: the length is not tested.
ShouldPlaceAnyLength(nChars, length) == nChars > 0

\* if (chars.length > 0 && length > 0)
ShouldPlace(nChars, length) == nChars > 0 /\ length > 0

\* for (let i = 0; i < chars.length; i++) { ... positions.push(...) }
\* acc holds the positions pushed and the arc lengths sampled so far.
RECURSIVE PlaceLoop(_, _, _, _, _, _)
PlaceLoop(d, length, n, follow, i, acc) ==
    IF i < n
    THEN LET charLength == CharLength(i, length, n)
             pathPoint == getPathPointAtLength(d, charLength)
             entry == [x |-> pathPoint.x, y |-> pathPoint.y,
                       angle |-> Rotation(follow, pathPoint.angle)]
         IN  PlaceLoop(d, length, n, follow, i + 1,
                       [positions |-> Append(acc.positions, entry),
                        measured |-> acc.measured,
                        sampled |-> Append(acc.sampled, charLength)])
    ELSE acc

\* Faulty variant: the loop starts one character late.
PlaceLoopSkipFirst(d, length, n, follow, i, acc) ==
    PlaceLoop(d, length, n, follow, i + 1, acc)

\* The loop of lines 84-94 from i = 0.
PlaceAll(d, length, n, follow, i, acc) == PlaceLoop(d, length, n, follow, i, acc)

\* The body of the effect: what it leaves in charPositions, and the arc lengths
\* it sampled.  With no path element it returns before setCharPositions.
LayoutEffect(ref, displayText, follow, prev) ==
    IF ~ref.attached THEN prev
    ELSE LET length == getTotalLength(ref.d)
             chars == Split(displayText)
             none == [positions |-> <<>>, measured |-> ref.d, sampled |-> <<>>]
         IN  IF ShouldPlace(Len(chars), length)
             THEN PlaceAll(ref.d, length, Len(chars), follow, 0, none)
             ELSE none

\* useState([]): no position, nothing measured or sampled yet.
NoPlacement == [positions |-> <<>>, measured |-> <<>>, sampled |-> <<>>]

\* Faulty variant: followPath is missing from the list.
EffectDepsNoFollow(pathData, displayText, follow) == <<pathData, displayText>>

\* [pathData, displayText, followPath]
EffectDeps(pathData, displayText, follow) == <<pathData, displayText, follow>>

\* What the effect finds in internalPathRef.current: the path element, carrying
\* the d of this render, when the commit attached it; null when it did not.
CurrentPathRef(committed, attached) == IF attached THEN Ref(committed) ELSE NullRef

\* One render of TextPathDisplay with the given props, its commit, and the layout
\* effect when a dependency changed; attached tells whether the commit put the
\* path element in internalPathRef.
DisplayWith(newProps, attached) ==
    LET pathData == coordsToSmoothPath(newProps.charCoords)
        newDeps == EffectDeps(pathData, newProps.displayText, newProps.followPath)
        kept == [positions |-> charPositions, measured |-> measured,
                 sampled |-> sampled]
    IN  /\ props' = newProps
        /\ pathD' = pathData
        /\ deps' = newDeps
        /\ pathAttached' = IF newDeps # deps THEN attached ELSE pathAttached
        /\ \E out \in { IF newDeps # deps
                         THEN LayoutEffect(CurrentPathRef(pathData, attached),
                                           newProps.displayText, newProps.followPath, kept)
                         ELSE kept } :
              /\ charPositions' = out.positions
              /\ measured' = out.measured
              /\ sampled' = out.sampled

\* The render React DOM makes: the path element is rendered unconditionally
\* (lines 106-112) and its ref is attached before layout effects run.
Display(newProps) == DisplayWith(newProps, TRUE)

\* The mount: first render, commit and first effect run (charPositions starts []).
MountWith(firstProps, attached) ==
    LET pathData == coordsToSmoothPath(firstProps.charCoords)
        out == LayoutEffect(CurrentPathRef(pathData, attached), firstProps.displayText,
                            firstProps.followPath, NoPlacement)
    IN  /\ props = firstProps
        /\ pathD = pathData
        /\ deps = EffectDeps(pathData, firstProps.displayText, firstProps.followPath)
        /\ pathAttached = attached
        /\ charPositions = out.positions
        /\ measured = out.measured
        /\ sampled = out.sampled

\* The mount React DOM makes.
Mount(firstProps) == MountWith(firstProps, TRUE)

----------------------------------------------------------------------------
(* App: state, render and handlers *)

\* initialTextPath.charCoords
initialCharCoords == << Pt(100, 400), Pt(300, 300), Pt(500, 270), Pt(700, 300) >>

\* <TextPathDisplay textPathObject={sampleTextPath} displayText={displayText}
\*                  followPath={followPath} />
AppProps(coords, mode, custom, follow) ==
    [charCoords |-> coords, displayText |-> DisplayText(mode, custom),
     followPath |-> follow]

\* An array slot never assigned.
Undefined == [undefined |-> TRUE]

\* Faulty variant: the slot after the one asked for is written.
ArraySetOneBased(arr, index, value) ==
    IF index + 1 < Len(arr) THEN [arr EXCEPT ![index + 2] = value]
    ELSE arr \o [k \in 1..(index + 1 - Len(arr)) |-> [undefined |-> TRUE]] \o <<value>>

\* newCoords[index] = value on a copy: past the end the array grows, leaving holes.
ArraySet(arr, index, value) ==
    IF index < Len(arr) THEN [arr EXCEPT ![index + 1] = value]
    ELSE arr \o [k \in 1..(index - Len(arr)) |-> Undefined] \o <<value>>

\* coords.filter((_, i) => i !== index)
FilterOut(coords, index) ==
    [k \in 1..(Len(coords) - (IF index < Len(coords) THEN 1 ELSE 0)) |->
        IF k <= index THEN coords[k] ELSE coords[k + 1]]

\* handleMouseDown: the next draggingIndex.
handleMouseDown(editMode, dragging, index) ==
    IF ~editMode THEN dragging ELSE index

\* Faulty variant: edit mode is not tested.
handleMouseMoveNoEditTest(editMode, dragging, coords, point) ==
    IF dragging = Null THEN coords
    ELSE ArraySet(coords, dragging, point)

\* handleMouseMove: the next charCoords.
handleMouseMove(editMode, dragging, coords, point) ==
    IF ~editMode \/ dragging = Null THEN coords
    ELSE ArraySet(coords, dragging, point)

\* handleMouseUp: the next draggingIndex.
handleMouseUp == Null

\* Faulty variant: the floor is 1 anchor.
handleDeletePointFloorOne(coords, index) ==
    IF Len(coords) > 1 THEN FilterOut(coords, index) ELSE coords

\* handleDeletePoint: the next charCoords.
handleDeletePoint(coords, index) ==
    IF Len(coords) > 2 THEN FilterOut(coords, index) ELSE coords

\* Faulty variant: the point is put first.
handleSVGClickPrepend(editMode, dragging, coords, point, tagName) ==
    IF ~editMode \/ dragging # Null THEN coords
    ELSE IF tagName = "circle" THEN coords
    ELSE <<point>> \o coords

\* handleSVGClick: the next charCoords.
handleSVGClick(editMode, dragging, coords, point, tagName) ==
    IF ~editMode \/ dragging # Null THEN coords
    ELSE IF tagName = "circle" THEN coords
    ELSE coords \o <<point>>

----------------------------------------------------------------------------
(* The editor: one action per event, each with the render it causes *)

\* The pointer positions the events carry, as getSVGPoint returns them: the place
\* of the first initial anchor, so that anchors can be brought to coincide.
MousePoints == { Pt(100, 400) }

NoPoint == Pt(-1, -1)

\* What the text input is made to hold; '' and a string with an astral code point.
CustomTexts == { <<>>, << 128512, 97 >> }

TextModes == { "japanese", "english", "custom" }

\* count is the number of anchors the event met.
Event(op, index, point, tagName) ==
    [op |-> op, index |-> index, point |-> point, tagName |-> tagName,
     count |-> Len(charCoords)]

\* App re-renders with the state the handler set, and TextPathDisplay with it.
Rerender == Display(AppProps(charCoords', textMode', customText', followPath'))

Init ==
    /\ charCoords = initialCharCoords
    /\ followPath = TRUE
    /\ textMode = "japanese"
    /\ customText = <<>>
    /\ isEditMode = FALSE
    /\ draggingIndex = Null
    /\ afterMouseUp = FALSE
    /\ last = Event("other", Null, NoPoint, "")
    /\ Mount(AppProps(charCoords, textMode, customText, followPath))

\* onClick of the three text-mode buttons.
SetTextMode(mode) ==
    /\ textMode' = mode
    /\ afterMouseUp' = FALSE
    /\ last' = Event("other", Null, NoPoint, "")
    /\ UNCHANGED <<charCoords, followPath, customText, isEditMode, draggingIndex>>
    /\ Rerender

\* onChange of the text input, rendered in custom mode only.
SetCustomText(str) ==
    /\ textMode = "custom"
    /\ customText' = str
    /\ afterMouseUp' = FALSE
    /\ last' = Event("other", Null, NoPoint, "")
    /\ UNCHANGED <<charCoords, followPath, textMode, isEditMode, draggingIndex>>
    /\ Rerender

\* onClick of the edit-mode button.
ToggleEditMode ==
    /\ isEditMode' = ~isEditMode
    /\ afterMouseUp' = FALSE
    /\ last' = Event("other", Null, NoPoint, "")
    /\ UNCHANGED <<charCoords, followPath, textMode, customText, draggingIndex>>
    /\ Rerender

\* onClick of the follow-path button.
ToggleFollowPath ==
    /\ followPath' = ~followPath
    /\ afterMouseUp' = FALSE
    /\ last' = Event("other", Null, NoPoint, "")
    /\ UNCHANGED <<charCoords, textMode, customText, isEditMode, draggingIndex>>
    /\ Rerender

\* onMouseDown of the hit circle of anchor index, rendered in edit mode only.
MouseDown(index) ==
    /\ isEditMode
    /\ index \in 0..(Len(charCoords) - 1)
    /\ draggingIndex' = handleMouseDown(isEditMode, draggingIndex, index)
    /\ afterMouseUp' = FALSE
    /\ last' = Event("other", Null, NoPoint, "")
    /\ UNCHANGED <<charCoords, followPath, textMode, customText, isEditMode>>
    /\ Rerender

\* onMouseMove of the svg.
MouseMove(point) ==
    /\ charCoords' = handleMouseMove(isEditMode, draggingIndex, charCoords, point)
    /\ afterMouseUp' = FALSE
    /\ last' = Event("mouseMove", Null, point, "svg")
    /\ UNCHANGED <<followPath, textMode, customText, isEditMode, draggingIndex>>
    /\ Rerender

\* onMouseUp of the svg.
MouseUp ==
    /\ draggingIndex' = handleMouseUp
    /\ afterMouseUp' = TRUE
    /\ last' = Event("other", Null, NoPoint, "")
    /\ UNCHANGED <<charCoords, followPath, textMode, customText, isEditMode>>
    /\ Rerender

\* onMouseLeave of the svg.
MouseLeave ==
    /\ draggingIndex' = handleMouseUp
    /\ afterMouseUp' = FALSE
    /\ last' = Event("other", Null, NoPoint, "")
    /\ UNCHANGED <<charCoords, followPath, textMode, customText, isEditMode>>
    /\ Rerender

\* A remove request on anchor index: onClick of its delete button.  The browser
\* dispatches a click right after the mouseup that completes it, and the anchor's
\* group is rendered in edit mode only.  The button itself is rendered while more
\* than 2 anchors exist (line 396) and the handler tests the count again: the
\* action is the handler, so a request at 2 anchors is the handler's answer to it.
DeletePoint(index) ==
    /\ afterMouseUp
    /\ isEditMode
    /\ index \in 0..(Len(charCoords) - 1)
    /\ charCoords' = handleDeletePoint(charCoords, index)
    /\ afterMouseUp' = FALSE
    /\ last' = Event("delete", index, NoPoint, "g")
    /\ UNCHANGED <<followPath, textMode, customText, isEditMode, draggingIndex>>
    /\ Rerender

\* onClick of the svg, at point, on the element tagName.  Circles exist in edit
\* mode only.
SVGClick(point, tagName) ==
    /\ afterMouseUp
    /\ tagName = "circle" => isEditMode
    /\ charCoords' = handleSVGClick(isEditMode, draggingIndex, charCoords, point, tagName)
    /\ Len(charCoords') <= MaxAnchors
    /\ afterMouseUp' = FALSE
    /\ last' = Event("click", Null, point, tagName)
    /\ UNCHANGED <<followPath, textMode, customText, isEditMode, draggingIndex>>
    /\ Rerender

Next ==
    \/ \E mode \in TextModes : SetTextMode(mode)
    \/ \E str \in CustomTexts : SetCustomText(str)
    \/ ToggleEditMode
    \/ ToggleFollowPath
    \/ \E index \in 0..(MaxAnchors - 1) : MouseDown(index)
    \/ \E point \in MousePoints : MouseMove(point)
    \/ MouseUp
    \/ MouseLeave
    \/ \E index \in 0..(MaxAnchors - 1) : DeletePoint(index)
    \/ \E point \in MousePoints, tagName \in {"svg", "circle"} : SVGClick(point, tagName)

Spec == Init /\ [][Next]_vars

----------------------------------------------------------------------------
(* TextPathDisplay on its own: rendered by a caller with any props *)

\* The points a caller passes: (0,0), (2,1), (4,1), (6,0), ...
PropPoint(k) == Pt(2 * k, (k * k) % 3)

PropPoints == { PropPoint(k) : k \in 0..(PropPositions - 1) }

\* '', 'A', '飛騨山脈', and a string with an astral code point.
PropTexts == { <<>>, << 65 >>, text, << 128512, 97 >> }

SeqsUpTo(S, n) == UNION { [1..k -> S] : k \in 0..n }

InitDisplay ==
    /\ charCoords = initialCharCoords
    /\ followPath = TRUE
    /\ textMode = "japanese"
    /\ customText = <<>>
    /\ isEditMode = FALSE
    /\ draggingIndex = Null
    /\ afterMouseUp = FALSE
    /\ last = Event("other", Null, NoPoint, "")
    /\ \E coords \in SeqsUpTo(PropPoints, MaxAnchors), str \in PropTexts,
          follow \in BOOLEAN :
          Mount([charCoords |-> coords, displayText |-> str, followPath |-> follow])

\* The caller renders again with another anchor array: one more point, one
\* point fewer, or one point replaced.
PropsCoords ==
    /\ \E coords \in SeqsUpTo(PropPoints, MaxAnchors) :
          /\ \/ /\ Len(coords) = Len(props.charCoords) + 1
                /\ SubSeq(coords, 1, Len(props.charCoords)) = props.charCoords
             \/ /\ Len(coords) = Len(props.charCoords) - 1
                /\ coords = SubSeq(props.charCoords, 1, Len(coords))
             \/ /\ Len(coords) = Len(props.charCoords)
                /\ Cardinality({ k \in 1..Len(coords) : coords[k] # props.charCoords[k] }) = 1
          /\ Display([props EXCEPT !.charCoords = coords])
    /\ UNCHANGED appVars

\* The caller renders again with another display text.
PropsText ==
    /\ \E str \in PropTexts \ { props.displayText } :
          Display([props EXCEPT !.displayText = str])
    /\ UNCHANGED appVars

\* The caller renders again with the other followPath.
PropsFollow ==
    /\ Display([props EXCEPT !.followPath = ~props.followPath])
    /\ UNCHANGED appVars

NextDisplay == PropsCoords \/ PropsText \/ PropsFollow

SpecDisplay == InitDisplay /\ [][NextDisplay]_vars

----------------------------------------------------------------------------
(* TextPathDisplay when a commit may leave internalPathRef.current null *)

\* The anchor arrays the caller passes: two of the points, or three.
DetachedCoords ==
    { << PropPoint(0), PropPoint(1) >>, << PropPoint(0), PropPoint(1), PropPoint(2) >> }

InitDetached ==
    /\ charCoords = initialCharCoords
    /\ followPath = TRUE
    /\ textMode = "japanese"
    /\ customText = <<>>
    /\ isEditMode = FALSE
    /\ draggingIndex = Null
    /\ afterMouseUp = FALSE
    /\ last = Event("other", Null, NoPoint, "")
    /\ \E coords \in DetachedCoords, str \in PropTexts, follow \in BOOLEAN,
          attached \in BOOLEAN :
          MountWith([charCoords |-> coords, displayText |-> str, followPath |-> follow],
                    attached)

\* The caller renders again with the other anchor array.
DetachedCoordsRender(attached) ==
    /\ \E coords \in DetachedCoords \ { props.charCoords } :
          DisplayWith([props EXCEPT !.charCoords = coords], attached)
    /\ UNCHANGED appVars

\* The caller renders again with another display text.
DetachedTextRender(attached) ==
    /\ \E str \in PropTexts \ { props.displayText } :
          DisplayWith([props EXCEPT !.displayText = str], attached)
    /\ UNCHANGED appVars

\* The caller renders again with the other followPath.
DetachedFollowRender(attached) ==
    /\ DisplayWith([props EXCEPT !.followPath = ~props.followPath], attached)
    /\ UNCHANGED appVars

NextDetached ==
    \E attached \in BOOLEAN :
        \/ DetachedCoordsRender(attached)
        \/ DetachedTextRender(attached)
        \/ DetachedFollowRender(attached)

SpecDetached == InitDetached /\ [][NextDetached]_vars

----------------------------------------------------------------------------
(* Rendering of the characters *)

\* displayText.split('').map((char, index) => ...): one <text> per character
\* that has a position, in order; a character without one renders null.
RenderedChars(displayText, positions) ==
    LET chars == Split(displayText)
        shown == { k \in 1..Len(chars) : k <= Len(positions) }
    IN  [k \in 1..Cardinality(shown) |-> [char |-> chars[k], pos |-> positions[k]]]

----------------------------------------------------------------------------
(* Properties *)

\* C1: starting from the 4 initial anchors the anchor count is never below 2, and
\* a remove request that meets fewer than 3 anchors leaves the anchor sequence
\* as it was.
C1_RemoveKeepsTwoAnchors ==
    /\ [](Len(charCoords) >= 2)
    /\ [][(last'.op = "delete" /\ Len(charCoords) < 3) => charCoords' = charCoords]_vars

\* A remove request was issued while exactly 2 anchors existed.
C1_Witness == last.op = "delete" /\ last.count = 2 /\ Len(charCoords) = 2

\* C2: after every event and the render it causes, the measuring path carries the
\* curve of the latest anchors, the last placement computation measured that
\* path, and the stored placement is the one computed from the latest anchors,
\* the latest display text and the latest follow-curve flag.
C2_PlacementIsCurrent ==
    LET pathData == coordsToSmoothPath(charCoords)
        displayText == DisplayText(textMode, customText)
        fresh == LayoutEffect(Ref(pathData), displayText, followPath, NoPlacement)
    IN  /\ props = AppProps(charCoords, textMode, customText, followPath)
        /\ pathD = pathData
        /\ measured = pathData
        /\ charPositions = fresh.positions
        /\ sampled = fresh.sampled

\* The anchors, the text and the flag have all changed since the mount.
C2_Witness ==
    /\ charCoords # initialCharCoords
    /\ textMode = "english"
    /\ ~followPath
    /\ Len(charPositions) = Len(textEng)

\* C3 as stated: in every state charPositions has as many entries as
\* displayText.split('') has characters.
C3_LengthAlwaysEqual == Len(charPositions) = Len(Split(props.displayText))

\* C3 amended: when the measured length of the curve is positive, charPositions
\* has as many entries as displayText.split('') has characters and the k-th
\* character rendered is character k at entry k; when the length is 0,
\* charPositions is empty.
C3_LengthEqualOnPositiveLength ==
    LET chars == Split(props.displayText)
        shown == RenderedChars(props.displayText, charPositions)
    IN  IF getTotalLength(pathD) > 0
        THEN /\ Len(charPositions) = Len(chars)
             /\ Len(shown) = Len(chars)
             /\ \A k \in 1..Len(chars) :
                   shown[k].char = chars[k] /\ shown[k].pos = charPositions[k]
        ELSE charPositions = <<>>

\* A custom text with an astral code point (3 code units) placed on a curve of
\* positive length.
C3_Witness ==
    /\ textMode = "custom"
    /\ customText = << 128512, 97 >>
    /\ getTotalLength(pathD) > 0
    /\ Len(charPositions) = 3

\* C4: on a curve of length T > 0 with n >= 1 characters, character i is sampled
\* at (i + 0.5) * T / n; the sample lengths increase strictly and lie in [0, T).
C4_SampleLengths ==
    LET T == getTotalLength(pathD)
        n == Len(Split(props.displayText))
    IN  (T > 0 /\ n >= 1) =>
            /\ Len(sampled) = n
            /\ \A i \in 0..(n - 1) :
                  /\ sampled[i + 1].num * 2 * n = (2 * i + 1) * T * sampled[i + 1].den
                  /\ sampled[i + 1].num >= 0
                  /\ sampled[i + 1].num < T * sampled[i + 1].den
                  /\ i > 0 => sampled[i].num * sampled[i + 1].den
                                 < sampled[i + 1].num * sampled[i].den

\* Four characters sampled on a curve of positive length.
C4_Witness ==
    /\ getTotalLength(pathD) > 0
    /\ props.displayText = text
    /\ Len(sampled) = 4

\* C5: with followPath false every entry has angle 0 and the position computed
\* for the same curve and text with followPath true; with followPath true the
\* angle of an entry is the sampler's angle at the entry's arc length.
C5_FollowPathAngles ==
    LET following == LayoutEffect(Ref(pathD), props.displayText, TRUE, NoPlacement)
    IN  /\ ~props.followPath =>
              /\ Len(charPositions) = Len(following.positions)
              /\ \A k \in 1..Len(charPositions) :
                    /\ charPositions[k].angle = ZeroDeg
                    /\ charPositions[k].x = following.positions[k].x
                    /\ charPositions[k].y = following.positions[k].y
        /\ props.followPath =>
              \A k \in 1..Len(charPositions) :
                 charPositions[k].angle = getPathPointAtLength(pathD, sampled[k]).angle

\* A placement of several characters computed with followPath false.
C5_Witness == ~props.followPath /\ Len(charPositions) >= 2

\* C6: the curve of n >= 1 anchors starts with a move to the first anchor; for
\* n >= 3 it continues with exactly n - 1 cubic segments, segment i ending at
\* anchor i + 1.
C6_CurveThroughAnchors ==
    LET coords == props.charCoords
        n == Len(coords)
    IN  /\ n >= 1 =>
              /\ pathD[1].op = "M"
              /\ pathD[1].args = << Scale * coords[1].x, Scale * coords[1].y >>
        /\ n >= 3 =>
              /\ Len(pathD) = n
              /\ \A i \in 0..(n - 2) :
                    /\ pathD[i + 2].op = "C"
                    /\ pathD[i + 2].args[5] = Scale * coords[i + 2].x
                    /\ pathD[i + 2].args[6] = Scale * coords[i + 2].y

\* A curve built from 4 anchors.
C6_Witness == Len(props.charCoords) = 4 /\ Len(pathD) = 4

\* C7: for n >= 3 anchors the control points of segment i are
\* CP1 = P1 + (P2 - P0)/6 and CP2 = P2 - (P3 - P1)/6, with P0 = P1 - (P2 - P1) on
\* the first segment and P3 = P2 + (P2 - P1) on the last (all in sixths).
C7_ControlPoints ==
    LET coords == props.charCoords
        n == Len(coords)
    IN  n >= 3 =>
            \A i \in 0..(n - 2) :
               LET P1 == coords[i + 1]
                   P2 == coords[i + 2]
                   P0 == IF i = 0 THEN Pt(2 * P1.x - P2.x, 2 * P1.y - P2.y)
                                  ELSE coords[i]
                   P3 == IF i = n - 2 THEN Pt(2 * P2.x - P1.x, 2 * P2.y - P1.y)
                                      ELSE coords[i + 3]
                   a == pathD[i + 2].args
               IN  /\ a[1] = Scale * P1.x + (P2.x - P0.x)
                   /\ a[2] = Scale * P1.y + (P2.y - P0.y)
                   /\ a[3] = Scale * P2.x - (P3.x - P1.x)
                   /\ a[4] = Scale * P2.y - (P3.y - P1.y)

\* A curve of 4 anchors with a first, an inner and a last segment of some extent.
C7_Witness ==
    /\ Len(props.charCoords) = 4
    /\ \A k \in 1..3 : props.charCoords[k] # props.charCoords[k + 1]
    /\ Len(pathD) = 4

\* C8: 0 anchors give an empty description, 1 anchor a lone move to it, 2 anchors
\* a move to the first and one straight line to the second; with 0 or 1 anchors
\* the placement is empty.
C8_ShortSequences ==
    LET coords == props.charCoords
        n == Len(coords)
    IN  /\ n = 0 => pathD = <<>>
        /\ n = 1 => pathD = << [op |-> "M",
                               args |-> << Scale * coords[1].x, Scale * coords[1].y >>] >>
        /\ n = 2 => pathD = << [op |-> "M",
                               args |-> << Scale * coords[1].x, Scale * coords[1].y >>],
                              [op |-> "L",
                               args |-> << Scale * coords[2].x, Scale * coords[2].y >>] >>
        /\ n <= 1 => charPositions = <<>>

\* A text of 4 characters placed against a single anchor.
C8_Witness ==
    /\ Len(props.charCoords) = 1
    /\ props.displayText = text
    /\ charPositions = <<>>

\* C9: a placement computed with no character, or on a curve of length 0, is
\* empty and takes no sample.
C9_EmptyPlacement ==
    (Len(Split(props.displayText)) = 0 \/ getTotalLength(pathD) = 0) =>
        /\ measured = pathD
        /\ charPositions = <<>>
        /\ sampled = <<>>

\* A text of 4 characters placed against two coincident anchors.
C9_Witness ==
    /\ Len(props.charCoords) = 2
    /\ props.charCoords[1] = props.charCoords[2]
    /\ props.displayText = text
    /\ charPositions = <<>>

\* C10 as stated: every click on the drawing area at p appends p.
C10_InsertAlwaysPermitted ==
    [][last'.op = "click" => charCoords' = Append(charCoords, last'.point)]_vars

\* C10 amended: a click at p in edit mode, with no drag in progress and not on an
\* anchor circle, appends p, raises the count by 1 and keeps every earlier anchor
\* at its index; any other click leaves the anchors as they were.
C10_InsertInEditMode ==
    [][last'.op = "click" =>
          IF isEditMode /\ draggingIndex = Null /\ last'.tagName # "circle"
          THEN /\ Len(charCoords') = Len(charCoords) + 1
               /\ charCoords'[Len(charCoords')] = last'.point
               /\ \A k \in 1..Len(charCoords) : charCoords'[k] = charCoords[k]
          ELSE charCoords' = charCoords]_vars

\* A click on the drawing area in edit mode has added an anchor.
C10_Witness ==
    /\ last.op = "click"
    /\ last.tagName = "svg"
    /\ isEditMode
    /\ Len(charCoords) = last.count + 1
    /\ charCoords[Len(charCoords)] = last.point

\* C11: the index being dragged is an index of the anchor sequence at every
\* moment, and a move applied to it (a mouse move in edit mode during a drag)
\* puts the new point at that index, keeps the anchor count and keeps every
\* anchor at any other index.
C11_MoveReplacesOneEntry ==
    /\ [](draggingIndex # Null => draggingIndex \in 0..(Len(charCoords) - 1))
    /\ [][(last'.op = "mouseMove" /\ isEditMode /\ draggingIndex # Null) =>
             /\ draggingIndex \in 0..(Len(charCoords) - 1)
             /\ Len(charCoords') = Len(charCoords)
             /\ charCoords'[draggingIndex + 1] = last'.point
             /\ \A k \in 1..Len(charCoords) :
                    k # draggingIndex + 1 => charCoords'[k] = charCoords[k]]_vars

\* A move was applied to an anchor other than the first, after an anchor before
\* it had been removed: the dragged anchor now sits at the pointer, the anchors
\* before it are where the removal left them.
C11_Witness ==
    /\ last.op = "mouseMove"
    /\ isEditMode
    /\ draggingIndex \in 1..(Len(charCoords) - 1)
    /\ Len(charCoords) = 3
    /\ charCoords[draggingIndex + 1] = last.point
    /\ charCoords[1] = initialCharCoords[2]

C13_NoChangeOutsideEditMode ==
    [][~isEditMode => charCoords' = charCoords]_vars

\* Edit mode was switched off during a drag of an already edited curve, and a
\* mouse move has been handled since.
C13_Witness ==
    /\ ~isEditMode
    /\ draggingIndex # Null
    /\ last.op = "mouseMove"
    /\ charCoords # initialCharCoords

====
